---- MODULE Spec2Model ----
(***************************************************************************)
(* Model of tffs_parse() and tffs_find_id() of fritz_tffs_read.c: the      *)
(* linear scan over a TFFS buffer and the lookup in the static ids[]       *)
(* table.                                                                  *)
(*                                                                         *)
(* Numbers that do not fit TLC's integers (uint32_t pos and count, the     *)
(* unsigned long tffs_size, buffer indices) are kept as pairs <<hi, lo>>   *)
(* of value hi * 65536 + lo with lo in 0..65535.  A uint32_t has           *)
(* hi in 0..65535; arithmetic done in size_t/unsigned long (LP64) keeps    *)
(* the full hi.                                                            *)
(***************************************************************************)
EXTENDS Integers, Sequences, FiniteSets, TLC

VARIABLES
    tffs_size,  \* static unsigned long tffs_size: the length of buffer
    hostLE,     \* TRUE when the build's host is little-endian
    input,      \* the bytes main() read into buffer, never changed
    buffer,     \* buffer as tffs_parse() sees it (headers converted in place)
    pos,        \* uint32_t pos
    count,      \* uint32_t count
    ids,        \* val, offset and len of each ids[] entry
    pc,         \* "loop": at the while test; "done": returned; "fault": killed
    hdr,        \* the header read by the last iteration, or NoHdr
    copy,       \* source and size of the last memcpy, or NoCopy
    hits,       \* per ids[] entry, how many scanned records were stored in it
    wraps       \* how many times pos passed 2^32

vars == <<tffs_size, hostLE, input, buffer, pos, count, ids, pc, hdr, copy,
          hits, wraps>>

-----------------------------------------------------------------------------
(* Bounds of the model *)

\* most 4-byte words written explicitly at the start of a buffer
MaxWords == 3
\* largest explicit small tffs_size
MaxSize == 13

-----------------------------------------------------------------------------
(* Wide numbers *)

Half == 65536

Num(n) == <<n \div Half, n % Half>>

\* x + n in size_t arithmetic (no wrap below 2^64), n a small natural
Plus(x, n) == <<x[1] + (x[2] + n) \div Half, (x[2] + n) % Half>>

\* truncation of a size_t value to uint32_t
ToU32(x) == <<x[1] % Half, x[2]>>

\* 1 when x does not fit a uint32_t
Carry(x) == IF x[1] >= Half THEN 1 ELSE 0

Less(x, y) == x[1] < y[1] \/ (x[1] = y[1] /\ x[2] < y[2])

LessEq(x, y) == x = y \/ Less(x, y)

-----------------------------------------------------------------------------
(* The registry *)

\* id->val is NULL or points to the bytes copied: <<>> or <<bytes>>
NULL == <<>>

Ptr(bytes) == <<bytes>>

id_table ==
    << [id |-> 256, name |-> "hw_revision"],
       [id |-> 257, name |-> "productid"],
       [id |-> 258, name |-> "serialnumber"],
       [id |-> 259, name |-> "dmc"],
       [id |-> 260, name |-> "hw_subrevision"],
       [id |-> 386, name |-> "bootloader_version"],
       [id |-> 388, name |-> "macbluetooth"],
       [id |-> 392, name |-> "maca"],
       [id |-> 393, name |-> "macb"],
       [id |-> 394, name |-> "macwlan"],
       [id |-> 395, name |-> "macdsl"],
       [id |-> 399, name |-> "my_ipaddress"],
       [id |-> 405, name |-> "macwlan2"],
       [id |-> 419, name |-> "usb_device_id"],
       [id |-> 419, name |-> "usb_revision_id"],
       [id |-> 420, name |-> "usb_device_name"],
       [id |-> 421, name |-> "usb_manufacturer_name"],
       [id |-> 422, name |-> "firmware_version"],
       [id |-> 423, name |-> "language"],
       [id |-> 424, name |-> "country"],
       [id |-> 425, name |-> "annex"],
       [id |-> 427, name |-> "wlan_key"],
       [id |-> 429, name |-> "http_key"],
       [id |-> 440, name |-> "wlan_cal"],
       [id |-> 509, name |-> "urlader_version"] >>

ARRAYSIZE == Len(id_table)

\* the loop run backwards: the last entry with the tag
tffs_find_id_last(id) ==
    LET match == {i \in 1..ARRAYSIZE : id = id_table[i].id}
    IN IF match = {} THEN 0 ELSE CHOOSE i \in match : \A j \in match : j <= i

\* for (i = 0; i < ARRAYSIZE(ids); i++) if (id == ids[i].id) return &ids[i];
\* return NULL: the index in ids[] of the entry returned, 0 for NULL
tffs_find_id(id) ==
    LET match == {i \in 1..ARRAYSIZE : id = id_table[i].id}
    IN IF match = {} THEN 0 ELSE CHOOSE i \in match : \A j \in match : i <= j

-----------------------------------------------------------------------------
(* Memory *)

\* A buffer is [base, bytes, patch, fill]: bytes are the bytes at the indices
\* base, base + 1, ...; patch maps the other indices written so far to their
\* bytes; every remaining index i holds fill[(i % 4) + 1].
InRun(buf, x) ==
    /\ LessEq(buf.base, x)
    /\ Less(x, Plus(buf.base, Len(buf.bytes)))

RunIndex(buf, x) == (x[1] - buf.base[1]) * Half + x[2] - buf.base[2] + 1

ByteAt(buf, x) ==
    IF InRun(buf, x) THEN buf.bytes[RunIndex(buf, x)]
    ELSE IF x \in DOMAIN buf.patch THEN buf.patch[x]
    ELSE buf.fill[(x[2] % 4) + 1]

\* buf after the bytes bs are written at the indices x, x + 1, ...
Poke(buf, x, bs) ==
    LET At(k) == Plus(x, k - 1)
        Hit(y) == {k \in 1..Len(bs) : At(k) = y}
        Out == {At(k) : k \in {k \in 1..Len(bs) :
                                  /\ ~InRun(buf, At(k))
                                  /\ ByteAt(buf, At(k)) # bs[k]}}
    IN [buf EXCEPT
          !.bytes = [i \in 1..Len(buf.bytes) |->
                       IF Hit(Plus(buf.base, i - 1)) # {}
                       THEN bs[CHOOSE k \in Hit(Plus(buf.base, i - 1)) : TRUE]
                       ELSE buf.bytes[i]],
          !.patch = [y \in (DOMAIN buf.patch) \cup Out |->
                       IF Hit(y) # {} THEN bs[CHOOSE k \in Hit(y) : TRUE]
                       ELSE buf.patch[y]]]

\* a uint16_t field read through the struct pointer, in host byte order
Load16(buf, x) ==
    IF hostLE THEN ByteAt(buf, x) + 256 * ByteAt(buf, Plus(x, 1))
    ELSE 256 * ByteAt(buf, x) + ByteAt(buf, Plus(x, 1))

\* the two bytes a uint16_t field holding v occupies, in host byte order
Bytes16(v) ==
    IF hostLE THEN <<v % 256, v \div 256>> ELSE <<v \div 256, v % 256>>

ntohs(v) == IF hostLE THEN (v % 256) * 256 + v \div 256 ELSE v

-----------------------------------------------------------------------------
(* tffs_parse *)

SizeofEntry == 4

EndTag == 65535

LoopCondInclusive(p, size) == LessEq(Plus(p, SizeofEntry), size)

\* pos + sizeof(struct tffs_entry) < tffs_size, evaluated in size_t
LoopCond(p, size) == Less(Plus(p, SizeofEntry), size)

IsEndNever(id) == FALSE

IsEnd(id) == id = EndTag

AlignNone(len) == len

\* (entry->len + 3) & ~0x03, evaluated in int
Align(len) == (len + 3) - ((len + 3) % 4)

\* pos += n on a uint32_t
Advance(p, n) == ToU32(Plus(p, n))

\* the three assignments to *id and the memcpy into the fresh id->val
Assign(old, new) == new

CountDistinct(c, old) == IF old.val = NULL THEN ToU32(Plus(c, 1)) ELSE c

\* ++count
Increment(c, old) == ToU32(Plus(c, 1))

\* entry->id and entry->len after the two ntohs() assignments
EntryId(buf, p) == ntohs(Load16(buf, p))
EntryLen(buf, p) == ntohs(Load16(buf, Plus(p, 2)))

\* buffer after entry->id = ntohs(entry->id); entry->len = ntohs(entry->len):
\* the same buffer when the four bytes written are those already there
Converted(buf, p) ==
    LET old == <<ByteAt(buf, p), ByteAt(buf, Plus(p, 1)),
                 ByteAt(buf, Plus(p, 2)), ByteAt(buf, Plus(p, 3))>>
        new == Bytes16(EntryId(buf, p)) \o Bytes16(EntryLen(buf, p))
    IN IF new = old THEN buf ELSE Poke(buf, p, new)

\* the bytes an out-of-bounds read may deliver
Garbage == {0, 255}

CopiedPadded(buf, p, n, g) ==
    [j \in 1..((n + 3) - ((n + 3) % 4)) |->
        IF Less(Plus(p, j - 1), tffs_size) THEN ByteAt(buf, Plus(p, j - 1))
        ELSE g]

\* what memcpy(id->val, &buffer[p], n) leaves in id->val; bytes beyond the
\* buffer are g
Copied(buf, p, n, g) ==
    [j \in 1..n |->
        IF Less(Plus(p, j - 1), tffs_size) THEN ByteAt(buf, Plus(p, j - 1))
        ELSE g]

InWindow(p, n) == LessEq(Plus(p, n), tffs_size)

NoHdr == [pos |-> <<0, 0>>, id |-> -1, len |-> 0]
NoCopy == [src |-> <<0, 0>>, n |-> -1]

Iterating ==
    /\ pc = "loop"
    /\ LoopCond(pos, tffs_size)

ReadHeader ==
    /\ buffer' = Converted(buffer, pos)
    /\ hdr' = [pos |-> pos, id |-> EntryId(buffer, pos),
               len |-> EntryLen(buffer, pos)]

\* the while test fails: return count
LoopExit ==
    /\ pc = "loop"
    /\ ~LoopCond(pos, tffs_size)
    /\ pc' = "done"
    /\ UNCHANGED <<tffs_size, hostLE, input, buffer, pos, count, ids, hdr,
                   copy, hits, wraps>>

\* entry->id == 0xffff: goto end
Sentinel ==
    /\ Iterating
    /\ IsEnd(EntryId(buffer, pos))
    /\ ReadHeader
    /\ pc' = "done"
    /\ UNCHANGED <<tffs_size, hostLE, input, pos, count, ids, copy, hits,
                   wraps>>

\* tffs_find_id() returns NULL: only the cursor moves
Skip ==
    /\ Iterating
    /\ ~IsEnd(EntryId(buffer, pos))
    /\ tffs_find_id(EntryId(buffer, pos)) = 0
    /\ ReadHeader
    /\ LET p4 == Advance(pos, SizeofEntry)
           n == Align(EntryLen(buffer, pos))
       IN /\ pos' = Advance(p4, n)
          /\ wraps' = wraps + Carry(Plus(pos, SizeofEntry)) + Carry(Plus(p4, n))
    /\ UNCHANGED <<tffs_size, hostLE, input, count, ids, pc, copy, hits>>

\* tffs_find_id() returns an entry: store the payload and count it
Store ==
    /\ Iterating
    /\ ~IsEnd(EntryId(buffer, pos))
    /\ tffs_find_id(EntryId(buffer, pos)) # 0
    /\ ReadHeader
    /\ LET e == tffs_find_id(EntryId(buffer, pos))
           len == EntryLen(buffer, pos)
           p4 == Advance(pos, SizeofEntry)
       IN /\ \E g \in Garbage :
                /\ InWindow(p4, len) => g = 0
                /\ ids' = [ids EXCEPT ![e] =
                            Assign(@, [val |-> Ptr(Copied(buffer, p4, len, g)),
                                       offset |-> p4, len |-> len])]
          /\ copy' = [src |-> p4, n |-> len]
          /\ count' = Increment(count, ids[e])
          /\ hits' = [hits EXCEPT ![e] = @ + 1]
          /\ pos' = Advance(p4, Align(len))
          /\ wraps' = wraps + Carry(Plus(pos, SizeofEntry))
                            + Carry(Plus(p4, Align(len)))
    /\ UNCHANGED <<tffs_size, hostLE, input, pc>>

\* the memcpy runs past the buffer and the read faults
Fault ==
    /\ Iterating
    /\ ~IsEnd(EntryId(buffer, pos))
    /\ tffs_find_id(EntryId(buffer, pos)) # 0
    /\ ~InWindow(Advance(pos, SizeofEntry), EntryLen(buffer, pos))
    /\ ReadHeader
    /\ copy' = [src |-> Advance(pos, SizeofEntry), n |-> EntryLen(buffer, pos)]
    /\ pc' = "fault"
    /\ UNCHANGED <<tffs_size, hostLE, input, pos, count, ids, hits, wraps>>

Next == LoopExit \/ Sentinel \/ Skip \/ Store \/ Fault

-----------------------------------------------------------------------------
(* Initial states *)

DEFAULT_TFFS_SIZE == Num(256 * 1024)

\* 4-byte words a buffer starts with
W_hw0 == <<1, 0, 0, 0>>          \* tag 0x0100 (hw_revision), len 0
W_hw6 == <<1, 0, 0, 6>>          \* tag 0x0100 (hw_revision), len 6
W_usb1 == <<1, 163, 0, 1>>       \* tag 0x01A3, len 1
W_unk2 == <<0, 0, 0, 2>>         \* unregistered tag 0, len 2
W_end == <<255, 255, 255, 255>>  \* the sentinel
W_text == <<65, 66, 67, 68>>     \* "ABCD"; as a header: tag 0x4142, len 0x4344

Words == {W_hw0, W_hw6, W_usb1, W_unk2, W_end, W_text}

W_unkMax == <<0, 0, 255, 255>>   \* unregistered tag 0, len 65535

\* the bytes of the words ws, one after the other
Bytes(ws) == [i \in 1..(4 * Len(ws)) |-> ws[((i - 1) \div 4) + 1][((i - 1) % 4) + 1]]

\* the buffer holding the words ws from index base on, the word w at index
\* at, and f elsewhere
Buffer(base, ws, at, w, f) ==
    [base |-> base, bytes |-> Bytes(ws), fill |-> f,
     patch |-> [y \in {Plus(at, k) : k \in {k \in 0..3 : w[k + 1] # f[k + 1]}} |->
                  w[(CHOOSE k \in 0..3 : Plus(at, k) = y) + 1]]]

WordSeqs == UNION {[1..n -> Words] : n \in 0..MaxWords}

SmallSizes == {Num(s) : s \in 0..MaxSize} \cup {DEFAULT_TFFS_SIZE}

Start ==
    /\ hostLE \in BOOLEAN
    /\ buffer = input
    /\ pos = Num(0)
    /\ count = Num(0)
    /\ ids = [i \in 1..ARRAYSIZE |-> [val |-> NULL, offset |-> Num(0), len |-> 0]]
    /\ pc = "loop"
    /\ hdr = NoHdr
    /\ copy = NoCopy
    /\ hits = [i \in 1..ARRAYSIZE |-> 0]
    /\ wraps = 0

\* buffers of a few bytes and of the default size: some words, then erased
\* flash
InitSmall ==
    /\ tffs_size \in SmallSizes
    /\ \E ws \in WordSeqs : input = Buffer(Num(0), ws, Num(0), W_end, W_end)
    /\ Start

\* A buffer of 4 GiB + 8 bytes.  Records of tag 0 and len 65535 fill it and
\* lead the cursor from 0 to 2^32 - 16, where a record of tag 0x01A3 and
\* len 1 ("A" and padding) is followed by a record of tag 0 and len 0 and, at
\* 2^32 - 4, by a second record of tag 0x01A3 and len 1 whose payload is the
\* "A" at 2^32.  The word at index 4 is the sentinel.
LargeSize == <<Half, 8>>

LargeTail == <<W_usb1, W_text, <<0, 0, 0, 0>>, W_usb1, W_text>>

InitLarge ==
    /\ tffs_size = LargeSize
    /\ input = Buffer(<<Half - 1, Half - 16>>, LargeTail, Num(4), W_end, W_unkMax)
    /\ Start

Init == InitSmall \/ InitLarge

Spec == Init /\ [][Next]_vars

-----------------------------------------------------------------------------
(* The wire format and the registry, as the properties below refer to them *)

\* the big-endian 16-bit field at index x
BE16(buf, x) == 256 * ByteAt(buf, x) + ByteAt(buf, Plus(x, 1))

Registered(t) == \E i \in 1..ARRAYSIZE : id_table[i].id = t

\* the first entry in declaration order with tag t, 0 when there is none
FirstWithTag(t) ==
    IF Registered(t)
    THEN CHOOSE i \in 1..ARRAYSIZE :
            /\ id_table[i].id = t
            /\ \A j \in 1..(i - 1) : id_table[j].id # t
    ELSE 0

\* length L rounded up to a multiple of 4
Padded(L) == 4 * ((L + 3) \div 4)

\* the n bytes of buf from index x on
Slice(buf, x, n) == [j \in 1..n |-> ByteAt(buf, Plus(x, j - 1))]

\* the entries that hold a decoded value
Decoded == {e \in 1..ARRAYSIZE : ids[e].val # NULL}

RECURSIVE SumTo(_, _)
SumTo(f, n) == IF n = 0 THEN 0 ELSE f[n] + SumTo(f, n - 1)

\* an iteration of the scan reads a header in this step
ReadsHeader == pc = "loop" /\ Less(Plus(pos, 4), tffs_size)

-----------------------------------------------------------------------------
(* The claims *)

\* C1: no payload copy is performed with pos + length > buffer_length (the
\* decoder reports malformed input instead of reading past the buffer).
C1_NoCopyPastBuffer ==
    copy # NoCopy => LessEq(Plus(copy.src, copy.n), tffs_size)

\* C2: when a record is stored in an entry that already holds the value of
\* an earlier record of the same tag, the entry then holds the later
\* record's length and payload, the bytes that follow its header in the
\* buffer (those inside the buffer).
C2_LastPayload ==
    [][\A e \in 1..ARRAYSIZE :
          (hits[e] > 0 /\ hits'[e] # hits[e]) =>
             /\ ids'[e].len = hdr'.len
             /\ Len(ids'[e].val[1]) = hdr'.len
             /\ \A j \in 1..hdr'.len :
                   Less(Plus(hdr'.pos, 3 + j), tffs_size)
                      => ids'[e].val[1][j] = ByteAt(input, Plus(hdr'.pos, 3 + j))]_vars

\* C3: after a record with header at p and declared length L, registered or
\* not, the next header is read at p + 4 + ((L + 3) & ~3).
C3_NextHeader ==
    [][(ReadsHeader /\ pc' = "loop")
          => pos' = Plus(pos, 4 + Padded(BE16(buffer, Plus(pos, 2))))]_vars

\* C4 as stated: a buffer holding one well-formed record with a registered
\* tag at offset 0 (its payload inside the buffer, followed by the sentinel
\* or by the end of the buffer) decodes to exactly that entry, with the L
\* payload bytes, and count == 1.
OneRecord ==
    LET L == BE16(input, Num(2))
        next == Num(4 + Padded(L))
    IN /\ Registered(BE16(input, Num(0)))
       /\ LessEq(Num(4 + L), tffs_size)
       /\ \/ LessEq(tffs_size, Plus(next, 4))
          \/ BE16(input, next) = 65535

OneRecordDecoded ==
    LET e == FirstWithTag(BE16(input, Num(0)))
        L == BE16(input, Num(2))
    IN /\ count = Num(1)
       /\ Decoded = {e}
       /\ ids[e].len = L
       /\ ids[e].val = Ptr(Slice(input, Num(4), L))

C4_Original == (pc = "done" /\ OneRecord) => OneRecordDecoded

\* C4 as amended: the same, for every buffer_length greater than 4 (a header
\* is only read while pos + 4 < buffer_length).
C4_OneRecord ==
    (pc = "done" /\ OneRecord /\ Less(Num(4), tffs_size)) => OneRecordDecoded

\* a record of length 6 that ends with the buffer was decoded
C4_Witness ==
    /\ pc = "done"
    /\ OneRecord
    /\ tffs_size = Num(10)
    /\ BE16(input, Num(2)) = 6
    /\ count = Num(1)

\* C5: a header with tag 0xFFFF stops the scan at once, changing neither a
\* decoded value nor the count; nothing changes after the scan has stopped;
\* a buffer whose first tag is 0xFFFF yields count 0, no value and no fault.
C5_SentinelStops ==
    [][/\ (ReadsHeader /\ BE16(buffer, pos) = 65535)
             => (pc' = "done" /\ count' = count /\ ids' = ids /\ pos' = pos)
       /\ pc = "done" => (pc' = "done" /\ count' = count /\ ids' = ids)
       /\ BE16(input, Num(0)) = 65535
             => (count' = Num(0) /\ Decoded' = {} /\ pc' = "done")]_vars

\* the scan stopped on a sentinel at offset 0 that a record of a registered
\* tag follows
C5_Witness ==
    /\ pc = "done"
    /\ hdr.pos = Num(0) /\ hdr.id = 65535
    /\ Registered(BE16(input, Num(4)))
    /\ count = Num(0)
    /\ Decoded = {}

\* C6: every iteration that does not stop the scan makes pos larger by at
\* least 4.
C6_CursorGrows ==
    [][(pc = "loop" /\ pc' = "loop") => LessEq(Plus(pos, 4), pos')]_vars

\* C7 as stated: the returned count is the number of entries that hold a
\* decoded value.
C7_Original == pc = "done" => count = Num(Cardinality(Decoded))

\* C7 as amended: the returned count is the number of scanned records whose
\* tag is registered, a repeated tag counted each time; it is at least the
\* number of entries that hold a value, and equal to it exactly when no
\* entry was stored twice.
C7_CountsRecords ==
    pc = "done" =>
        /\ count = Num(SumTo(hits, ARRAYSIZE))
        /\ Decoded = {e \in 1..ARRAYSIZE : hits[e] > 0}
        /\ Cardinality(Decoded) <= SumTo(hits, ARRAYSIZE)
        /\ (Cardinality(Decoded) = SumTo(hits, ARRAYSIZE))
              <=> (\A e \in 1..ARRAYSIZE : hits[e] <= 1)

\* two records were stored in one entry
C7_Witness ==
    /\ pc = "done"
    /\ count = Num(2)
    /\ Cardinality(Decoded) = 1

\* the tags the lookup is probed with: those of the table, their
\* neighbours, 0 and 0xFFFF
ProbeTags ==
    UNION {{id_table[i].id - 1, id_table[i].id, id_table[i].id + 1} :
              i \in 1..ARRAYSIZE} \cup {0, 65535}

\* C8: the lookup returns the first entry of the table with the tag, or
\* nothing; a scanned record is stored in the first entry declared with its
\* tag and in no other, a record of an unregistered tag is stored nowhere,
\* and the second entry of tag 0x01A3 (usb_revision_id) never holds a value.
C8_FirstEntryWins ==
    [][/\ ReadsHeader =>
             LET t == BE16(buffer, pos)
                 e == FirstWithTag(t)
             IN IF t # 65535 /\ e # 0
                THEN pc' = "loop" =>
                        /\ ids'[e].val # NULL
                        /\ ids'[e].offset = ToU32(Plus(pos, 4))
                        /\ \A o \in 1..ARRAYSIZE : o # e => ids'[o] = ids[o]
                ELSE ids' = ids /\ count' = count
       /\ ids'[15].val = NULL
       /\ pc' = "done" => \A t \in ProbeTags : tffs_find_id(t) = FirstWithTag(t)]_vars

\* a record of tag 0x01A3 was stored under usb_device_id
C8_Witness ==
    /\ hdr.id = 419
    /\ id_table[14].name = "usb_device_id"
    /\ ids[14].val # NULL
    /\ ids[15].val = NULL
    /\ pc = "done"

\* C9 as stated: every header read at pos has pos + 4 <= buffer_length - 4.
C9_Original == hdr # NoHdr => LessEq(Plus(hdr.pos, 8), tffs_size)

\* C9 as amended: every header read at pos has pos + 4 < buffer_length,
\* and pos + 4 <= buffer_length - 4 when buffer_length is a multiple of 4.
C9_FinalBytes ==
    hdr # NoHdr =>
        /\ Less(Plus(hdr.pos, 4), tffs_size)
        /\ tffs_size[2] % 4 = 0 => LessEq(Plus(hdr.pos, 8), tffs_size)

\* the header just before the final 4 bytes of a buffer was read
C9_Witness ==
    /\ hdr # NoHdr
    /\ tffs_size[2] % 4 = 0
    /\ Plus(hdr.pos, 8) = tffs_size
    /\ hdr.pos # Num(0)

\* C10: pos is always a multiple of 4 that fits 32 bits, and the 4 bytes of
\* every header read lie inside the buffer (the loop test is evaluated in the
\* 64-bit size_t of an LP64 build, where pos + 4 does not wrap).
C10_AlignedInside ==
    /\ pos[2] % 4 = 0
    /\ pos[1] < Half
    /\ hdr # NoHdr =>
          /\ hdr.pos[2] % 4 = 0
          /\ LessEq(Plus(hdr.pos, 4), tffs_size)

\* the header at 2^32 - 4 was read, after records whose length is no
\* multiple of 4 had been passed
C10_Witness ==
    /\ hdr.pos = <<Half - 1, Half - 4>>
    /\ wraps > 0
    /\ pc = "loop"

====
